---- MODULE Spec2Model ----
(***************************************************************************)
(* splitify: the expense ledger behind the REST routes.                    *)
(*                                                                         *)
(* The state is the content of the expenses, expense_splits, groups and    *)
(* group_members tables (or of the MemStorage maps), the id counters, and  *)
(* the requests that are between two awaits of their handler.  Amounts are *)
(* counted in cents.                                                       *)
(* The handlers of routes.ts are split at their awaits: with the database  *)
(* storage every awaited repository call is a separate statement and the   *)
(* handlers of concurrent requests interleave between them; with           *)
(* MemStorage every await resolves in a microtask, so a handler runs to    *)
(* its response before the next request is taken up.                       *)
(***************************************************************************)
EXTENDS Integers, Sequences, FiniteSets, Bags, TLC

\* ---------------------------------------------------------------- domains
Users == {1, 2}
Categories == {1, 2}
GroupIds == {1, 2}
Amounts == {1, 2}

\* group_id is a nullable column: Null is the value of "no group".
Null == 0
\* expense?.group_id of a split whose expense is not stored.
Undefined == -1

\* Caps on the id counters: the expense rows and the split rows ever written.
MaxExpenses == 2
MaxSplits == 2
\* Caps on the group rows and the membership rows ever written, and on the
\* add-member requests between their check and their insert.
MaxGroups == 1
MaxGroupMembers == 3
MaxAdding == 2

VARIABLES
    storage,                \* "db" (DatabaseStorage) or "mem" (MemStorage)
    expenses,               \* id -> expense row
    expenseSplits,          \* id -> split row
    currentExpenseId,       \* next expense id (serial / currentExpenseId)
    currentExpenseSplitId,  \* next split id
    posting,                \* ids of the expenses whose POST is in its split loop
    deleting,               \* DELETE requests past the owner check
    response,               \* the response sent by the last step, if any
    groups,                 \* id -> group row
    groupMembers,           \* id -> group_members row
    currentGroupId,         \* next group id
    currentGroupMemberId,   \* next group_members id
    creating,               \* POST /api/groups requests past createGroup
    adding                  \* bag of the add-member requests past their checks

vars == <<storage, expenses, expenseSplits, currentExpenseId,
          currentExpenseSplitId, posting, deleting, response,
          groups, groupMembers, currentGroupId, currentGroupMemberId,
          creating, adding>>

\* The tables, counters and requests of the expense routes and of the group
\* routes.
expenseVars == <<expenses, expenseSplits, currentExpenseId,
                 currentExpenseSplitId, posting, deleting>>

groupVars == <<groups, groupMembers, currentGroupId, currentGroupMemberId,
               creating, adding>>

\* ---------------------------------------------------------------- helpers
\* The response a step sends, if it sends one: the route and the status.
NoResponse == [route |-> "none", status |-> 0]

Reply(route, status) == [route |-> route, status |-> status]

Without(f, ids) == [k \in DOMAIN f \ ids |-> f[k]]

\* The sum of the amounts of the rows ids, in cents: the rounding of the
\* parseFloat sums is not followed.
RECURSIVE SumAmount(_, _)
SumAmount(rows, ids) ==
    IF ids = {} THEN 0
    ELSE LET k == CHOOSE x \in ids : TRUE
         IN  rows[k].amount + SumAmount(rows, ids \ {k})

\* ---------------------------------------------------------------- storage
\* getAllExpensesByUser that leaves out the split expenses.
getUnsplitExpensesByUser(E, userId) ==
    {e \in DOMAIN E : E[e].user_id = userId /\ ~E[e].is_split}

getAllExpensesByUser(E, userId) == {e \in DOMAIN E : E[e].user_id = userId}

getExpenseSplits(S, expenseId) == {s \in DOMAIN S : S[s].expense_id = expenseId}

\* createExpense that takes the lowest id no stored expense has.
createExpenseAtFreeId(E, id, row) ==
    E @@ ((CHOOSE k \in 1..id : k \notin DOMAIN E /\
                                 \A j \in 1..(k - 1) : j \in DOMAIN E) :> row)

createExpense(E, id, row) == E @@ (id :> row)

createExpenseSplit(S, id, row) == S @@ (id :> row)

\* deleteExpenseSplits that keeps the splits of the expense and marks them
\* as paid.
settleExpenseSplits(S, id) ==
    [s \in DOMAIN S |->
        IF S[s].expense_id = id THEN [S[s] EXCEPT !.paid = TRUE] ELSE S[s]]

\* deleteExpense, first statement: the splits of the expense.
deleteExpenseSplits(S, id) == Without(S, getExpenseSplits(S, id))

\* deleteExpense, second statement: the expense row.
deleteExpenseRow(E, id) == Without(E, {id})

getGroupExpenses(E, groupId) == {e \in DOMAIN E : E[e].group_id = groupId}

createGroup(G, id, row) == G @@ (id :> row)

\* The rows getGroupById selects: none, or the one with the id.
getGroupById(G, id) == {g \in DOMAIN G : g = id}

isUserGroupMember(M, userId, groupId) ==
    \E m \in DOMAIN M : M[m].group_id = groupId /\ M[m].user_id = userId

\* MemStorage.getGroupMembers: the users of the membership rows of the group
\* in the order of the rows in the map, which is the order of their ids; the
\* users of the model are all registered.
RECURSIVE MemGetGroupMembers(_, _, _)
MemGetGroupMembers(M, groupId, ids) ==
    IF ids = {} THEN <<>>
    ELSE LET m == CHOOSE x \in ids : \A y \in ids : x <= y
             rest == MemGetGroupMembers(M, groupId, ids \ {m})
         IN  IF M[m].group_id = groupId THEN <<M[m].user_id>> \o rest ELSE rest

\* DatabaseStorage.getGroupMembers: the users whose id is among the user_id
\* of the rows of the group, selected without ORDER BY: the database may
\* return them in any order.
DbGetGroupMembers(M, groupId) ==
    LET userIds == {M[m].user_id : m \in {k \in DOMAIN M : M[k].group_id = groupId}}
        n == Cardinality(userIds)
    IN  {seq \in [1..n -> userIds] : \A i, j \in 1..n : seq[i] = seq[j] => i = j}

\* The results storage.getGroupMembers may return.
getGroupMembers(M, groupId) ==
    IF storage = "mem" THEN {MemGetGroupMembers(M, groupId, DOMAIN M)}
    ELSE DbGetGroupMembers(M, groupId)

\* group_members has no key but its id: the row is written whatever rows
\* are stored.
addGroupMember(M, id, row) == M @@ (id :> row)

\* ------------------------------------------------------- getUserBalances
\* CategoryTotals that appends an entry for every expense.
RECURSIVE CategoryTotalsPerExpense(_, _, _)
CategoryTotalsPerExpense(E, ids, acc) ==
    IF ids = {} THEN acc
    ELSE LET e == CHOOSE x \in ids : \A y \in ids : x <= y
         IN  CategoryTotalsPerExpense(E, ids \ {e},
                Append(acc, [categoryId |-> E[e].category_id,
                             amount |-> E[e].amount]))

\* totalByCategory: one entry per category in the order in which the user's
\* expenses first name it; the expenses are visited in id order.
RECURSIVE CategoryTotals(_, _, _)
CategoryTotals(E, ids, acc) ==
    IF ids = {} THEN acc
    ELSE LET e == CHOOSE x \in ids : \A y \in ids : x <= y
             c == E[e].category_id
             hit == {i \in 1..Len(acc) : acc[i].categoryId = c}
             next == IF hit = {}
                     THEN Append(acc, [categoryId |-> c, amount |-> E[e].amount])
                     ELSE [i \in 1..Len(acc) |->
                              IF i \in hit
                              THEN [acc[i] EXCEPT !.amount = @ + E[e].amount]
                              ELSE acc[i]]
         IN  CategoryTotals(E, ids \ {e}, next)

\* expense?.group_id as MemStorage reads it for a split.
MemGroupOf(E, expenseId) ==
    IF expenseId \in DOMAIN E THEN E[expenseId].group_id ELSE Undefined

MemUserOwesSplits(S, userId) ==
    {s \in DOMAIN S : S[s].user_id = userId /\ ~S[s].paid}

\* MemOthersOweSplits that takes the splits on the expenses of every user.
MemSplitsOfOthers(E, S, userId) ==
    {s \in DOMAIN S : S[s].user_id # userId /\ ~S[s].paid}

MemOthersOweSplits(E, S, userId) ==
    {s \in DOMAIN S : /\ S[s].expense_id \in getAllExpensesByUser(E, userId)
                      /\ S[s].user_id # userId
                      /\ ~S[s].paid}

MemGetUserBalances(E, S, userId) ==
    LET userExpenses == getAllExpensesByUser(E, userId)
        userOwesSplits == MemUserOwesSplits(S, userId)
        othersOweSplits == MemOthersOweSplits(E, S, userId)
    IN  [totalSpent |-> SumAmount(E, userExpenses),
         youOwe |->
            [total |-> SumAmount(S, userOwesSplits),
             count |-> Cardinality(userOwesSplits),
             groups |-> Cardinality({MemGroupOf(E, S[s].expense_id) :
                                        s \in userOwesSplits})],
         youAreOwed |->
            [total |-> SumAmount(S, othersOweSplits),
             count |-> Cardinality(othersOweSplits),
             groups |-> Cardinality({MemGroupOf(E, S[s].expense_id) :
                                        s \in othersOweSplits})],
         totalByCategory |-> CategoryTotals(E, userExpenses, <<>>)]

\* inArray of drizzle-orm as a condition on a column value.  Over an empty
\* list of values it is taken to select no row: the release of drizzle-orm
\* the application is built with is not part of the sources.
inArray(value, values) == value \in values

\* The expenses of other users in which the user has a split row.
DbSplitExpenses(E, S, userId) ==
    LET userSplits == {s \in DOMAIN S : S[s].user_id = userId}
        splitExpenseIds == {S[s].expense_id : s \in userSplits}
    IN  {e \in DOMAIN E : inArray(e, splitExpenseIds) /\ E[e].user_id # userId}

DbUserOwesSplits(E, S, userId) ==
    {s \in DOMAIN S : /\ S[s].user_id = userId
                      /\ inArray(S[s].expense_id, DbSplitExpenses(E, S, userId))}

DbOthersOweSplits(E, S, userId) ==
    {s \in DOMAIN S : /\ inArray(S[s].expense_id, getAllExpensesByUser(E, userId))
                      /\ S[s].user_id # userId}

\* .map(expense => expense.group_id).filter(Boolean), as a Set
DbGroupsOf(E, ids) == {E[e].group_id : e \in ids} \ {Null}

DbGetUserBalances(E, S, userId) ==
    LET userExpenses == getAllExpensesByUser(E, userId)
        userOwesSplits == DbUserOwesSplits(E, S, userId)
        othersOweSplits == DbOthersOweSplits(E, S, userId)
    IN  [totalSpent |-> SumAmount(E, userExpenses),
         youOwe |->
            [total |-> SumAmount(S, userOwesSplits),
             count |-> Cardinality(userOwesSplits),
             groups |-> Cardinality(DbGroupsOf(E, DbSplitExpenses(E, S, userId)))],
         youAreOwed |->
            [total |-> SumAmount(S, othersOweSplits),
             count |-> Cardinality(othersOweSplits),
             groups |-> Cardinality(DbGroupsOf(E, userExpenses))],
         totalByCategory |-> CategoryTotals(E, userExpenses, <<>>)]

\* storage.getUserBalances of the storage in use, on the tables E and S.
getUserBalances(E, S, userId) ==
    IF storage = "mem" THEN MemGetUserBalances(E, S, userId)
    ELSE DbGetUserBalances(E, S, userId)

\* ----------------------------------------------------------------- routes
\* With MemStorage a handler is never interleaved with another one.
Idle == posting = {} /\ deleting = {} /\ creating = {} /\ adding = EmptyBag

MayStart == storage = "db" \/ Idle

Init ==
    /\ storage \in {"db", "mem"}
    /\ expenses = <<>>
    /\ expenseSplits = <<>>
    /\ currentExpenseId = 1
    /\ currentExpenseSplitId = 1
    /\ posting = {}
    /\ deleting = {}
    /\ response = NoResponse
    /\ groups = <<>>
    /\ groupMembers = <<>>
    /\ currentGroupId = 1
    /\ currentGroupMemberId = 1
    /\ creating = {}
    /\ adding = EmptyBag

\* POST /api/expenses: the body does not parse, or createExpense throws.
PostExpenseRejected(u) ==
    /\ MayStart
    /\ response' = Reply("POST", 400)
    /\ UNCHANGED <<storage, expenses, expenseSplits, currentExpenseId,
                   currentExpenseSplitId, posting, deleting>>
    /\ UNCHANGED groupVars

\* POST /api/expenses up to the split loop: the expense row is written.  The
\* loop is entered when is_split is set and the body carries a splits array.
PostExpense(u, amount, category, isSplit, group, hasSplits) ==
    /\ MayStart
    /\ currentExpenseId <= MaxExpenses
    /\ expenses' = createExpense(expenses, currentExpenseId,
                      [user_id |-> u, amount |-> amount, category_id |-> category,
                       is_split |-> isSplit, group_id |-> group])
    /\ currentExpenseId' = currentExpenseId + 1
    /\ IF isSplit /\ hasSplits
       THEN /\ posting' = posting \cup {currentExpenseId}
            /\ response' = NoResponse
       ELSE /\ posting' = posting
            /\ response' = Reply("POST", 201)
    /\ UNCHANGED <<storage, expenseSplits, currentExpenseSplitId, deleting>>
    /\ UNCHANGED groupVars

\* One turn of the split loop: the next element parses and is written.
PostSplit(e, user, amount, paid) ==
    /\ e \in posting
    /\ currentExpenseSplitId <= MaxSplits
    /\ expenseSplits' = createExpenseSplit(expenseSplits, currentExpenseSplitId,
                           [expense_id |-> e, user_id |-> user,
                            amount |-> amount, paid |-> paid])
    /\ currentExpenseSplitId' = currentExpenseSplitId + 1
    /\ response' = NoResponse
    /\ UNCHANGED <<storage, expenses, currentExpenseId, posting, deleting>>
    /\ UNCHANGED groupVars

\* One turn of the split loop throws (the element does not parse, or
\* createExpenseSplit fails): the catch block answers 400.
PostSplitFailed(e) ==
    /\ e \in posting
    /\ posting' = posting \ {e}
    /\ response' = Reply("POST", 400)
    /\ UNCHANGED <<storage, expenses, expenseSplits, currentExpenseId,
                   currentExpenseSplitId, deleting>>
    /\ UNCHANGED groupVars

\* The split loop is through: 201.
PostDone(e) ==
    /\ e \in posting
    /\ posting' = posting \ {e}
    /\ response' = Reply("POST", 201)
    /\ UNCHANGED <<storage, expenses, expenseSplits, currentExpenseId,
                   currentExpenseSplitId, deleting>>
    /\ UNCHANGED groupVars

\* DeleteStatus without the comparison of the owner with the requester.
DeleteStatusAnyUser(u, id) ==
    IF id \notin DOMAIN expenses THEN 404 ELSE 200

\* The status DELETE /api/expenses/:id decides on from getExpenseById.
DeleteStatus(u, id) ==
    IF id \notin DOMAIN expenses THEN 404
    ELSE IF expenses[id].user_id # u THEN 403
    ELSE 200

\* DELETE /api/expenses/:id up to the call of storage.deleteExpense.  The
\* model follows one accepted DELETE per expense at a time.
DeleteExpense(u, id) ==
    /\ MayStart
    /\ LET status == DeleteStatus(u, id)
       IN  IF status = 200
           THEN /\ \A r \in deleting : r.id # id
                /\ deleting' = deleting \cup
                      {[id |-> id, user |-> u, pc |-> "splits"]}
                /\ response' = NoResponse
           ELSE /\ deleting' = deleting
                /\ response' = Reply("DELETE", status)
    /\ UNCHANGED <<storage, expenses, expenseSplits, currentExpenseId,
                   currentExpenseSplitId, posting>>
    /\ UNCHANGED groupVars

\* storage.deleteExpense, first statement.
DeleteSplits(r) ==
    /\ r \in deleting
    /\ r.pc = "splits"
    /\ expenseSplits' = deleteExpenseSplits(expenseSplits, r.id)
    /\ deleting' = (deleting \ {r}) \cup {[r EXCEPT !.pc = "expense"]}
    /\ response' = NoResponse
    /\ UNCHANGED <<storage, expenses, currentExpenseId,
                   currentExpenseSplitId, posting>>
    /\ UNCHANGED groupVars

\* storage.deleteExpense, second statement, and the 200 that follows it.
DeleteRow(r) ==
    /\ r \in deleting
    /\ r.pc = "expense"
    /\ expenses' = deleteExpenseRow(expenses, r.id)
    /\ deleting' = deleting \ {r}
    /\ response' = Reply("DELETE", 200)
    /\ UNCHANGED <<storage, expenseSplits, currentExpenseId,
                   currentExpenseSplitId, posting>>
    /\ UNCHANGED groupVars

\* POST /api/groups: the body does not parse, or createGroup throws.
PostGroupRejected(u) ==
    /\ MayStart
    /\ response' = Reply("POST group", 400)
    /\ UNCHANGED <<storage, groupVars, expenseVars>>

\* POST /api/groups up to the first addGroupMember: the group row is written.
PostGroup(u) ==
    /\ MayStart
    /\ currentGroupId <= MaxGroups
    /\ groups' = createGroup(groups, currentGroupId, [created_by |-> u])
    /\ currentGroupId' = currentGroupId + 1
    /\ creating' = creating \cup
          {[id |-> currentGroupId, user |-> u, pc |-> "creator"]}
    /\ response' = NoResponse
    /\ UNCHANGED <<storage, groupMembers, currentGroupMemberId, adding,
                   expenseVars>>

\* The creator is added as the first member.
PostGroupCreator(r) ==
    /\ r \in creating
    /\ r.pc = "creator"
    /\ currentGroupMemberId <= MaxGroupMembers
    /\ groupMembers' = addGroupMember(groupMembers, currentGroupMemberId,
                           [group_id |-> r.id, user_id |-> r.user])
    /\ currentGroupMemberId' = currentGroupMemberId + 1
    /\ creating' = (creating \ {r}) \cup {[r EXCEPT !.pc = "members"]}
    /\ response' = NoResponse
    /\ UNCHANGED <<storage, groups, currentGroupId, adding, expenseVars>>

\* One turn of the loop over req.body.members that names another user than
\* the creator: the member is added.  A turn that names the creator writes
\* nothing.
PostGroupMember(r, memberId) ==
    /\ r \in creating
    /\ r.pc = "members"
    /\ memberId # r.user
    /\ currentGroupMemberId <= MaxGroupMembers
    /\ groupMembers' = addGroupMember(groupMembers, currentGroupMemberId,
                           [group_id |-> r.id, user_id |-> memberId])
    /\ currentGroupMemberId' = currentGroupMemberId + 1
    /\ response' = NoResponse
    /\ UNCHANGED <<storage, groups, currentGroupId, creating, adding,
                   expenseVars>>

\* An addGroupMember of the handler throws (the statement fails in the
\* database): the catch block answers 400 and the rows written so far stay.
PostGroupFailed(r) ==
    /\ r \in creating
    /\ storage = "db"
    /\ creating' = creating \ {r}
    /\ response' = Reply("POST group", 400)
    /\ UNCHANGED <<storage, groups, groupMembers, currentGroupId,
                   currentGroupMemberId, adding, expenseVars>>

\* The loop over req.body.members is through: 201.
PostGroupDone(r) ==
    /\ r \in creating
    /\ r.pc = "members"
    /\ creating' = creating \ {r}
    /\ response' = Reply("POST group", 201)
    /\ UNCHANGED <<storage, groups, groupMembers, currentGroupId,
                   currentGroupMemberId, adding, expenseVars>>

\* AddMemberStatus without the check that the user is a member already.
AddMemberStatusUnchecked(u, groupId, userId) ==
    IF getGroupById(groups, groupId) = {} THEN 404
    ELSE IF ~isUserGroupMember(groupMembers, u, groupId) THEN 403
    ELSE 201

\* The status POST /api/groups/:id/members decides on from getGroupById and
\* the two calls of isUserGroupMember; 201 stands for "goes on to insert".
\* Groups and memberships are never removed, so what the three reads find
\* one after the other is what they find together at the time of the last.
AddMemberStatus(u, groupId, userId) ==
    IF getGroupById(groups, groupId) = {} THEN 404
    ELSE IF ~isUserGroupMember(groupMembers, u, groupId) THEN 403
    ELSE IF isUserGroupMember(groupMembers, userId, groupId) THEN 400
    ELSE 201

\* POST /api/groups/:id/members up to the call of addGroupMember.
AddMember(u, groupId, userId) ==
    /\ MayStart
    /\ LET status == AddMemberStatus(u, groupId, userId)
       IN  IF status = 201
           THEN /\ BagCardinality(adding) < MaxAdding
                /\ adding' = adding (+)
                      SetToBag({[group_id |-> groupId, user_id |-> userId]})
                /\ response' = NoResponse
           ELSE /\ adding' = adding
                /\ response' = Reply("POST member", status)
    /\ UNCHANGED <<storage, groups, groupMembers, currentGroupId,
                   currentGroupMemberId, creating, expenseVars>>

\* POST /api/groups/:id/members without a user_id in the body.
AddMemberNoUser(u, groupId) ==
    /\ MayStart
    /\ response' = Reply("POST member", 400)
    /\ UNCHANGED <<storage, groupVars, expenseVars>>

\* addGroupMember of POST /api/groups/:id/members, and the 201.
AddMemberInsert(r) ==
    /\ r \in BagToSet(adding)
    /\ currentGroupMemberId <= MaxGroupMembers
    /\ groupMembers' = addGroupMember(groupMembers, currentGroupMemberId, r)
    /\ currentGroupMemberId' = currentGroupMemberId + 1
    /\ adding' = adding (-) SetToBag({r})
    /\ response' = Reply("POST member", 201)
    /\ UNCHANGED <<storage, groups, currentGroupId, creating, expenseVars>>

\* addGroupMember of POST /api/groups/:id/members throws: 400.
AddMemberFailed(r) ==
    /\ r \in BagToSet(adding)
    /\ storage = "db"
    /\ adding' = adding (-) SetToBag({r})
    /\ response' = Reply("POST member", 400)
    /\ UNCHANGED <<storage, groups, groupMembers, currentGroupId,
                   currentGroupMemberId, creating, expenseVars>>

\* The response of a read: the route, the status, the requester and what is
\* sent back.
ReplyWith(route, status, user, body) ==
    [route |-> route, status |-> status, user |-> user, body |-> body]

\* GET /api/balance that also marks the splits of the requester as paid.
GetBalanceSettling(u) ==
    /\ MayStart
    /\ response' = ReplyWith("GET balance", 200, u,
                       getUserBalances(expenses, expenseSplits, u))
    /\ expenseSplits' = [s \in DOMAIN expenseSplits |->
                            IF expenseSplits[s].user_id = u
                            THEN [expenseSplits[s] EXCEPT !.paid = TRUE]
                            ELSE expenseSplits[s]]
    /\ UNCHANGED <<storage, expenses, currentExpenseId, currentExpenseSplitId,
                   posting, deleting, groupVars>>

\* GET /api/balance: the report of the requester.  getUserBalances only
\* selects (or filters the maps); the report of a call that no write overlaps
\* is the report of the tables as they are.
GetBalance(u) ==
    /\ MayStart
    /\ response' = ReplyWith("GET balance", 200, u,
                       getUserBalances(expenses, expenseSplits, u))
    /\ UNCHANGED <<storage, expenseVars, groupVars>>

\* The status GET /api/groups/:id decides on from getGroupById and
\* isUserGroupMember.
GroupDetailsStatus(u, groupId) ==
    IF getGroupById(groups, groupId) = {} THEN 404
    ELSE IF ~isUserGroupMember(groupMembers, u, groupId) THEN 403
    ELSE 200

\* GET /api/groups/:id: the expenses of the group for a member (the group row
\* and the members are sent along with them).
GetGroupDetails(u, groupId) ==
    /\ MayStart
    /\ LET status == GroupDetailsStatus(u, groupId)
       IN  response' = ReplyWith("GET group", status, u,
                          IF status = 200
                          THEN getGroupExpenses(expenses, groupId) ELSE {})
    /\ UNCHANGED <<storage, expenseVars, groupVars>>

\* GET /api/export/expenses: with a groupId in the query the expenses of that
\* group, without one the expenses of the requester (the period filters are
\* not followed).
ExportExpenses(u, groupId) ==
    /\ MayStart
    /\ response' = ReplyWith("GET export", 200, u,
                       IF groupId # Null
                       THEN getGroupExpenses(expenses, groupId)
                       ELSE getAllExpensesByUser(expenses, u))
    /\ UNCHANGED <<storage, expenseVars, groupVars>>

ExpenseIds == 1..(MaxExpenses + 1)

\* The group ids a request may name: those that can be stored, and one more.
GroupIdsNamed == 1..(MaxGroups + 1)

\* The steps of the handlers of the group routes, with the users of the
\* requests drawn from the sets of the record body.
NextGroupsOver(body) ==
    \/ \E u \in body.creator : PostGroupRejected(u)
    \/ \E u \in body.creator : PostGroup(u)
    \/ \E r \in creating : PostGroupCreator(r)
    \/ \E r \in creating, memberId \in body.members : PostGroupMember(r, memberId)
    \/ \E r \in creating : PostGroupFailed(r)
    \/ \E r \in creating : PostGroupDone(r)
    \/ \E u \in body.requester, groupId \in GroupIdsNamed, userId \in body.user_id :
          AddMember(u, groupId, userId)
    \/ \E u \in body.requester, groupId \in GroupIdsNamed : AddMemberNoUser(u, groupId)
    \/ \E r \in BagToSet(adding) : AddMemberInsert(r)
    \/ \E r \in BagToSet(adding) : AddMemberFailed(r)

\* The steps of the handlers, with the fields of the request bodies drawn
\* from the sets of the record body.
NextOver(body) ==
    \/ \E u \in Users : PostExpenseRejected(u)
    \/ \E u \in Users, amount \in body.amount, category \in body.category_id,
          isSplit \in body.is_split, group \in body.group_id,
          hasSplits \in body.has_splits :
          PostExpense(u, amount, category, isSplit, group, hasSplits)
    \/ \E e \in posting, user \in body.split_user_id,
          amount \in body.split_amount, paid \in body.split_paid :
          PostSplit(e, user, amount, paid)
    \/ \E e \in posting : PostSplitFailed(e)
    \/ \E e \in posting : PostDone(e)
    \/ \E u \in Users, id \in ExpenseIds : DeleteExpense(u, id)
    \/ \E r \in deleting : DeleteSplits(r)
    \/ \E r \in deleting : DeleteRow(r)

\* Request bodies for the interleavings of creation and deletion: one
\* category, no group, unpaid splits.
LedgerBodies ==
    [amount |-> {2}, category_id |-> {1}, is_split |-> BOOLEAN, has_splits |-> BOOLEAN,
     group_id |-> {Null}, split_user_id |-> Users, split_amount |-> {1},
     split_paid |-> {FALSE}]

Next == NextOver(LedgerBodies)

Spec == Init /\ [][Next]_vars

\* Request bodies for the balance report: split expenses with and without a
\* group, paid and unpaid splits of two amounts.
BalanceBodies ==
    [amount |-> {2}, category_id |-> {1}, is_split |-> {TRUE}, has_splits |-> BOOLEAN,
     group_id |-> GroupIds \cup {Null}, split_user_id |-> Users,
     split_amount |-> Amounts, split_paid |-> BOOLEAN]

NextBalances == NextOver(BalanceBodies)

SpecBalances == Init /\ [][NextBalances]_vars

\* Request bodies for the owner check of deletion: the rows differ in their
\* owner alone.
DeleteBodies ==
    [amount |-> {2}, category_id |-> {1}, is_split |-> {TRUE}, has_splits |-> {TRUE},
     group_id |-> {Null}, split_user_id |-> {1}, split_amount |-> {1},
     split_paid |-> {FALSE}]

NextDelete == NextOver(DeleteBodies)

SpecDelete == Init /\ [][NextDelete]_vars

\* Requests of the group routes by every user for every user.
GroupBodies ==
    [creator |-> Users, members |-> Users, requester |-> Users, user_id |-> Users]

NextGroups == NextGroupsOver(GroupBodies)

SpecGroups == Init /\ [][NextGroups]_vars

\* The steps of the handlers of the expense routes for clients that send
\* their requests one after the other: a request is taken up when no handler
\* is between two awaits.
NextOneByOneOver(body) ==
    \/ \E u \in Users : Idle /\ PostExpenseRejected(u)
    \/ \E u \in Users, amount \in body.amount, category \in body.category_id,
          isSplit \in body.is_split, group \in body.group_id,
          hasSplits \in body.has_splits :
          Idle /\ PostExpense(u, amount, category, isSplit, group, hasSplits)
    \/ \E e \in posting, user \in body.split_user_id,
          amount \in body.split_amount, paid \in body.split_paid :
          PostSplit(e, user, amount, paid)
    \/ \E e \in posting : PostSplitFailed(e)
    \/ \E e \in posting : PostDone(e)
    \/ \E u \in Users, id \in ExpenseIds : Idle /\ DeleteExpense(u, id)
    \/ \E r \in deleting : DeleteSplits(r)
    \/ \E r \in deleting : DeleteRow(r)

\* Request bodies for the sums of the balance report: expenses of two
\* amounts in two categories, split and unsplit, with splits of user 1.
TotalsBodies ==
    [amount |-> Amounts, category_id |-> Categories, is_split |-> BOOLEAN,
     has_splits |-> {TRUE}, group_id |-> {Null}, split_user_id |-> {1},
     split_amount |-> {1}, split_paid |-> {FALSE}]

NextTotals == NextOneByOneOver(TotalsBodies)

SpecTotals == Init /\ [][NextTotals]_vars

\* Request bodies for the report as a whole: split and unsplit expenses with
\* and without a group, paid and unpaid splits of both users.
ReportBodies ==
    [amount |-> {2}, category_id |-> {1}, is_split |-> BOOLEAN,
     has_splits |-> {TRUE}, group_id |-> {Null, 1}, split_user_id |-> Users,
     split_amount |-> {1}, split_paid |-> BOOLEAN]

NextReport == NextOneByOneOver(ReportBodies)

SpecReport == Init /\ [][NextReport]_vars

\* Request bodies of a user who pays a coffee of 4.50 and a dinner of 31.00
\* that is shared in halves of 15.50 inside group 1.
EndToEndBodies ==
    [amount |-> {450, 3100}, category_id |-> {1}, is_split |-> BOOLEAN,
     has_splits |-> {TRUE}, group_id |-> {Null, 1}, split_user_id |-> Users,
     split_amount |-> {1550}, split_paid |-> {FALSE}]

\* The steps of POST /api/groups of user 1 with user 2 in req.body.members,
\* and of the expense routes, for requests sent one after the other.
NextEndToEnd ==
    \/ NextOneByOneOver(EndToEndBodies)
    \/ Idle /\ PostGroup(1)
    \/ \E r \in creating : PostGroupCreator(r)
    \/ \E r \in creating : PostGroupMember(r, 2)
    \/ \E r \in creating : PostGroupFailed(r)
    \/ \E r \in creating : PostGroupDone(r)

SpecEndToEnd == Init /\ [][NextEndToEnd]_vars

\* Request bodies with amounts of either sign: insertExpenseSchema takes
\* amount as the text of a numeric column and puts no bound on its value.
SignedBodies ==
    [amount |-> {-1, 0, 1}, category_id |-> {1}, is_split |-> BOOLEAN,
     has_splits |-> {TRUE}, group_id |-> {Null}, split_user_id |-> {2},
     split_amount |-> {1}, split_paid |-> {FALSE}]

NextSigned == NextOneByOneOver(SignedBodies)

SpecSigned == Init /\ [][NextSigned]_vars

\* Request bodies for the reads of the balance report: split expenses of
\* both users, with and without a group, with unpaid splits of both users.
ReadBodies ==
    [amount |-> {2}, category_id |-> {1}, is_split |-> {TRUE},
     has_splits |-> {TRUE}, group_id |-> {Null, 1}, split_user_id |-> Users,
     split_amount |-> {1}, split_paid |-> {FALSE}]

\* The expense routes, their requests sent one after the other, and
\* GET /api/balance at any time.
NextRead ==
    \/ NextOneByOneOver(ReadBodies)
    \/ \E u \in Users : GetBalance(u)

SpecRead == Init /\ [][NextRead]_vars

\* Request bodies for the rows of the store: split expenses of both users
\* with one split.
StoreBodies ==
    [amount |-> {2}, category_id |-> {1}, is_split |-> {TRUE},
     has_splits |-> {TRUE}, group_id |-> {Null}, split_user_id |-> {1},
     split_amount |-> {1}, split_paid |-> {FALSE}]

\* The writes of the expense routes and of POST /api/groups, their requests
\* sent one after the other.
NextStore ==
    \/ NextOneByOneOver(StoreBodies)
    \/ \E u \in Users : Idle /\ PostGroup(u)
    \/ \E r \in creating : PostGroupCreator(r)
    \/ \E r \in creating, memberId \in Users : PostGroupMember(r, memberId)
    \/ \E r \in creating : PostGroupFailed(r)
    \/ \E r \in creating : PostGroupDone(r)

SpecStore == Init /\ [][NextStore]_vars

\* Request bodies for the reads of a group's expenses: expenses with and
\* without a group, with one split.
AccessBodies ==
    [amount |-> {2}, category_id |-> {1}, is_split |-> {TRUE},
     has_splits |-> {TRUE}, group_id |-> {Null, 1}, split_user_id |-> {2},
     split_amount |-> {1}, split_paid |-> {FALSE}]

\* The writes of the expense routes and of POST /api/groups, their requests
\* sent one after the other, and the two routes that read the expenses of a
\* group.
NextAccess ==
    \/ NextOneByOneOver(AccessBodies)
    \/ \E u \in Users : Idle /\ PostGroup(u)
    \/ \E r \in creating : PostGroupCreator(r)
    \/ \E r \in creating, memberId \in Users : PostGroupMember(r, memberId)
    \/ \E r \in creating : PostGroupFailed(r)
    \/ \E r \in creating : PostGroupDone(r)
    \/ \E u \in Users, groupId \in GroupIdsNamed : GetGroupDetails(u, groupId)
    \/ \E u \in Users, groupId \in GroupIdsNamed \cup {Null} :
          ExportExpenses(u, groupId)

SpecAccess == Init /\ [][NextAccess]_vars

\* ------------------------------------------------------------------ claims
Abs(x) == IF x < 0 THEN -x ELSE x

\* The requests that are still at work on expense e.
InFlight(e) == e \in posting \/ \E r \in deleting : r.id = e

\* C1: every stored expense with is_split = true whose requests have been
\* answered has splits that sum to its amount, within one cent.
C1_SplitSumEqualsAmount ==
    \A e \in DOMAIN expenses :
        (expenses[e].is_split /\ ~InFlight(e)) =>
            Abs(SumAmount(expenseSplits, getExpenseSplits(expenseSplits, e))
                - expenses[e].amount) <= 1

\* C2: a create request that fails inside its split loop, after the expense
\* row was written, leaves neither the expense nor any of its splits stored.
C2_CreateAllOrNothing ==
    [][\A e \in posting :
          PostSplitFailed(e) =>
              /\ e \notin DOMAIN expenses'
              /\ getExpenseSplits(expenseSplits', e) = {}]_vars

\* C3: every stored split references an expense that is stored.
C3_NoOrphanSplit ==
    \A s \in DOMAIN expenseSplits :
        expenseSplits[s].expense_id \in DOMAIN expenses

\* C4: when deleteExpense(e) has succeeded, no split of e is stored, and the
\* balances of every user are those of the tables without e and its splits.
C4_DeleteCascade ==
    [][\A r \in deleting :
          DeleteRow(r) =>
              /\ r.id \notin DOMAIN expenses'
              /\ getExpenseSplits(expenseSplits', r.id) = {}
              /\ \A u \in Users :
                    getUserBalances(expenses', expenseSplits', u) =
                    getUserBalances(deleteExpenseRow(expenses', r.id),
                                    deleteExpenseSplits(expenseSplits', r.id), u)]_vars

\* C5: DELETE answers 404 when the expense is not stored and 403 when the
\* requester is not its owner, and changes nothing in both cases; an expense
\* row is removed only by a request of its owner.
C5_DeleteOwnerOnly ==
    [][/\ \A u \in Users, id \in ExpenseIds :
             DeleteExpense(u, id) =>
                 /\ id \notin DOMAIN expenses =>
                        /\ response' = Reply("DELETE", 404)
                        /\ UNCHANGED <<expenses, expenseSplits, deleting>>
                 /\ (id \in DOMAIN expenses /\ expenses[id].user_id # u) =>
                        /\ response' = Reply("DELETE", 403)
                        /\ UNCHANGED <<expenses, expenseSplits, deleting>>
                 /\ (id \in DOMAIN expenses /\ expenses[id].user_id = u) =>
                        /\ response'.status \notin {403, 404}
                        /\ [id |-> id, user |-> u, pc |-> "splits"] \in deleting'
       /\ \A e \in DOMAIN expenses \ DOMAIN expenses' :
             \E r \in deleting : r.id = e /\ r.user = expenses[e].user_id]_vars

\* C5 witness: a request of a user who is not the owner was answered 403
\* while the expense and a split of it are stored.
C5_Witness ==
    /\ response = Reply("DELETE", 403)
    /\ \E s \in DOMAIN expenseSplits :
          expenseSplits[s].expense_id \in DOMAIN expenses


\* The splits that count for youOwe: of the user, on a stored expense of
\* another user, unpaid.
YouOweSplits(u) ==
    {s \in DOMAIN expenseSplits :
        /\ expenseSplits[s].user_id = u
        /\ expenseSplits[s].expense_id \in DOMAIN expenses
        /\ expenses[expenseSplits[s].expense_id].user_id # u
        /\ ~expenseSplits[s].paid}

\* The splits that count for youAreOwed: of another user, on a stored expense
\* of the user, unpaid.
YouAreOwedSplits(u) ==
    {s \in DOMAIN expenseSplits :
        /\ expenseSplits[s].expense_id \in DOMAIN expenses
        /\ expenses[expenseSplits[s].expense_id].user_id = u
        /\ expenseSplits[s].user_id # u
        /\ ~expenseSplits[s].paid}

\* The distinct non-null groups of the expenses of the splits ids.
GroupsOfSplits(ids) ==
    {expenses[expenseSplits[s].expense_id].group_id : s \in ids} \ {Null}

Balances(u) == getUserBalances(expenses, expenseSplits, u)

\* C6: youOwe.total is the sum of the user's unpaid splits on the expenses of
\* other users.
C6_YouOweTotal ==
    \A u \in Users :
        Balances(u).youOwe.total = SumAmount(expenseSplits, YouOweSplits(u))

\* C7: youAreOwed.total is the sum of the unpaid splits of other users on the
\* user's expenses.
C7_YouAreOwedTotal ==
    \A u \in Users :
        Balances(u).youAreOwed.total = SumAmount(expenseSplits, YouAreOwedSplits(u))

\* The split table with the paid flag of split s set to paid.
WithPaid(s, paid) == [expenseSplits EXCEPT ![s].paid = paid]

\* C8: with the paid flag of one split set, youOwe and youAreOwed (total and
\* count) of every user are those of the table without the split, and
\* totalSpent and totalByCategory are those of the table with the flag unset.
C8_PaidFlagEffect ==
    \A s \in DOMAIN expenseSplits : \A u \in Users :
        LET paid == getUserBalances(expenses, WithPaid(s, TRUE), u)
            unpaid == getUserBalances(expenses, WithPaid(s, FALSE), u)
            without == getUserBalances(expenses, Without(expenseSplits, {s}), u)
        IN  /\ paid.youOwe.total = without.youOwe.total
            /\ paid.youOwe.count = without.youOwe.count
            /\ paid.youAreOwed.total = without.youAreOwed.total
            /\ paid.youAreOwed.count = without.youAreOwed.count
            /\ paid.totalSpent = unpaid.totalSpent
            /\ paid.totalByCategory = unpaid.totalByCategory

\* Split s is a self-split: its participant owns its expense.
SelfSplit(s) ==
    /\ expenseSplits[s].expense_id \in DOMAIN expenses
    /\ expenses[expenseSplits[s].expense_id].user_id = expenseSplits[s].user_id

\* C9: a self-split changes neither youOwe nor youAreOwed of its user, and an
\* unpaid split of another participant on the same expense is counted in
\* that participant's youOwe and in the owner's youAreOwed.
C9_SelfSplitNeutral ==
    \A s \in DOMAIN expenseSplits :
        SelfSplit(s) =>
            LET u == expenseSplits[s].user_id
                with == Balances(u)
                without == getUserBalances(expenses, Without(expenseSplits, {s}), u)
            IN  /\ with.youOwe = without.youOwe
                /\ with.youAreOwed = without.youAreOwed
                /\ \A t \in DOMAIN expenseSplits :
                      (/\ expenseSplits[t].expense_id = expenseSplits[s].expense_id
                       /\ expenseSplits[t].user_id # u
                       /\ ~expenseSplits[t].paid) =>
                          LET v == expenseSplits[t].user_id
                              rest == Without(expenseSplits, {t})
                          IN  /\ Balances(v).youOwe.total =
                                    getUserBalances(expenses, rest, v).youOwe.total
                                    + expenseSplits[t].amount
                              /\ with.youAreOwed.total =
                                    getUserBalances(expenses, rest, u).youAreOwed.total
                                    + expenseSplits[t].amount

\* C10: youOwe.count is the number of the splits that count for youOwe, and
\* youOwe.groups the number of distinct non-null groups of their expenses.
C10_YouOweCounts ==
    \A u \in Users :
        /\ Balances(u).youOwe.count = Cardinality(YouOweSplits(u))
        /\ Balances(u).youOwe.groups = Cardinality(GroupsOfSplits(YouOweSplits(u)))

\* C11: youAreOwed.count is the number of the splits that count for
\* youAreOwed, and youAreOwed.groups the number of distinct non-null groups
\* of the expenses of those splits.
C11_YouAreOwedCounts ==
    \A u \in Users :
        /\ Balances(u).youAreOwed.count = Cardinality(YouAreOwedSplits(u))
        /\ Balances(u).youAreOwed.groups =
              Cardinality(GroupsOfSplits(YouAreOwedSplits(u)))

\* The expenses user u owns.
OwnedBy(u) == {e \in DOMAIN expenses : expenses[e].user_id = u}

\* C12: totalSpent of a user is the sum of the amounts of the expenses the
\* user owns, split or not, and of no other expense.
C12_TotalSpent ==
    \A u \in Users :
        Balances(u).totalSpent = SumAmount(expenses, OwnedBy(u))

\* C12 witness: a user owns a split expense with a stored split, and the
\* other user owns an expense too.
C12_Witness ==
    \E e, f \in DOMAIN expenses :
        /\ expenses[e].user_id # expenses[f].user_id
        /\ expenses[e].is_split
        /\ getExpenseSplits(expenseSplits, e) # {}
        /\ Balances(expenses[e].user_id).totalSpent = expenses[e].amount

\* C13: totalByCategory of a user has exactly one entry for every category
\* of an expense the user owns and no other entry, and the amount of an
\* entry is the sum of the user's expenses of its category.
C13_TotalByCategory ==
    \A u \in Users :
        LET t == Balances(u).totalByCategory
        IN  /\ {t[i].categoryId : i \in 1..Len(t)} =
                  {expenses[e].category_id : e \in OwnedBy(u)}
            /\ \A i, j \in 1..Len(t) : t[i].categoryId = t[j].categoryId => i = j
            /\ \A i \in 1..Len(t) :
                  t[i].amount =
                     SumAmount(expenses,
                        {e \in OwnedBy(u) : expenses[e].category_id = t[i].categoryId})

\* C13 witness: a user owns an expense and has a split on an expense of the
\* other user that is of another category, and the report of the user has
\* the one entry.
C13_Witness ==
    \E s \in DOMAIN expenseSplits : \E e \in DOMAIN expenses :
        LET u == expenseSplits[s].user_id
        IN  /\ expenseSplits[s].expense_id = e
            /\ expenses[e].user_id # u
            /\ OwnedBy(u) # {}
            /\ \A f \in OwnedBy(u) : expenses[f].category_id # expenses[e].category_id
            /\ Len(Balances(u).totalByCategory) = 1

\* C14: an unsplit expense, with or without a group, changes youOwe and
\* youAreOwed of no user, and totalSpent and totalByCategory of no user but
\* its owner: the reports are those of the tables without the expense.
C14_UnsplitExpenseEffect ==
    \A e \in DOMAIN expenses :
        ~expenses[e].is_split =>
            \A u \in Users :
                LET with == Balances(u)
                    without == getUserBalances(deleteExpenseRow(expenses, e),
                                               expenseSplits, u)
                IN  /\ with.youOwe = without.youOwe
                    /\ with.youAreOwed = without.youAreOwed
                    /\ u # expenses[e].user_id =>
                          /\ with.totalSpent = without.totalSpent
                          /\ with.totalByCategory = without.totalByCategory

\* The report of a user without an expense and without a split.
ZeroReport ==
    [totalSpent |-> 0,
     youOwe |-> [total |-> 0, count |-> 0, groups |-> 0],
     youAreOwed |-> [total |-> 0, count |-> 0, groups |-> 0],
     totalByCategory |-> <<>>]

\* User u owns no expense and no split names u.
Uninvolved(u) ==
    /\ OwnedBy(u) = {}
    /\ \A s \in DOMAIN expenseSplits : expenseSplits[s].user_id # u

RECURSIVE TotalYouOwe(_)
TotalYouOwe(us) ==
    IF us = {} THEN 0
    ELSE LET u == CHOOSE x \in us : TRUE
         IN  Balances(u).youOwe.total + TotalYouOwe(us \ {u})

RECURSIVE TotalYouAreOwed(_)
TotalYouAreOwed(us) ==
    IF us = {} THEN 0
    ELSE LET u == CHOOSE x \in us : TRUE
         IN  Balances(u).youAreOwed.total + TotalYouAreOwed(us \ {u})

\* C16: every unpaid split of a participant on a stored expense of another
\* user adds its amount once to youOwe.total of the participant and once to
\* youAreOwed.total of the owner, and the sum of youOwe.total over all users
\* is the sum of youAreOwed.total over all users.
C16_BalanceSymmetry ==
    /\ \A s \in DOMAIN expenseSplits :
          LET b == expenseSplits[s].user_id
              e == expenseSplits[s].expense_id
              rest == Without(expenseSplits, {s})
          IN  (e \in DOMAIN expenses /\ expenses[e].user_id # b
                 /\ ~expenseSplits[s].paid) =>
                  /\ Balances(b).youOwe.total =
                        getUserBalances(expenses, rest, b).youOwe.total
                        + expenseSplits[s].amount
                  /\ Balances(expenses[e].user_id).youAreOwed.total =
                        getUserBalances(expenses, rest, expenses[e].user_id)
                           .youAreOwed.total
                        + expenseSplits[s].amount
    /\ TotalYouOwe(Users) = TotalYouAreOwed(Users)

\* The users with a membership row of group g.
MembersOf(g) ==
    {groupMembers[m].user_id :
        m \in {k \in DOMAIN groupMembers : groupMembers[k].group_id = g}}

\* User 1 has created an unsplit expense of 4.50, then group 1 with the
\* members 1 and 2, then a split expense of 31.00 in group 1 in the same
\* category with a split of 15.50 for each of the two; all requests are
\* answered.
EndToEndStored ==
    /\ Idle
    /\ expenses =
          (1 :> [user_id |-> 1, amount |-> 450, category_id |-> 1,
                 is_split |-> FALSE, group_id |-> Null])
          @@ (2 :> [user_id |-> 1, amount |-> 3100, category_id |-> 1,
                    is_split |-> TRUE, group_id |-> 1])
    /\ DOMAIN groups = {1}
    /\ groups[1].created_by = 1
    /\ MembersOf(1) = {1, 2}
    /\ DOMAIN expenseSplits = {1, 2}
    /\ {expenseSplits[s] : s \in DOMAIN expenseSplits} =
          {[expense_id |-> 2, user_id |-> u, amount |-> 1550, paid |-> FALSE] :
              u \in {1, 2}}

\* C17: after the coffee, the group and the shared dinner of user 1 the
\* report of user 1 is totalSpent 35.50, youAreOwed 15.50 in one split of one
\* group, youOwe all zero and one category entry of 35.50; the report of
\* user 2 is totalSpent 0, youOwe 15.50 in one split of one group,
\* youAreOwed.total 0 and no category entry.
C17_EndToEnd ==
    EndToEndStored =>
        /\ Balances(1) =
              [totalSpent |-> 3550,
               youOwe |-> [total |-> 0, count |-> 0, groups |-> 0],
               youAreOwed |-> [total |-> 1550, count |-> 1, groups |-> 1],
               totalByCategory |-> <<[categoryId |-> 1, amount |-> 3550]>>]
        /\ Balances(2).totalSpent = 0
        /\ Balances(2).youOwe = [total |-> 1550, count |-> 1, groups |-> 1]
        /\ Balances(2).youAreOwed.total = 0
        /\ Balances(2).totalByCategory = <<>>

\* C18: no two membership rows are stored for the same group and user.
C18_MembershipUnique ==
    \A m, n \in DOMAIN groupMembers :
        (/\ groupMembers[m].group_id = groupMembers[n].group_id
         /\ groupMembers[m].user_id = groupMembers[n].user_id) => m = n

\* C19: an add-member request for a pair that is stored when the request
\* checks it fails (with 400 when the requester may add members) and changes
\* no membership; a request that passes its checks goes on to insert, and
\* its insert writes exactly one row, of its pair, after which
\* isUserGroupMember is true for the pair.
C19_AddMember ==
    [][/\ \A u \in Users, g \in GroupIdsNamed, m \in Users :
             AddMember(u, g, m) =>
                 /\ groupMembers' = groupMembers
                 /\ isUserGroupMember(groupMembers, m, g) =>
                        /\ response'.status \in {400, 403}
                        /\ isUserGroupMember(groupMembers, u, g) =>
                               response' = Reply("POST member", 400)
                        /\ adding' = adding
                 /\ (/\ ~isUserGroupMember(groupMembers, m, g)
                     /\ g \in DOMAIN groups
                     /\ isUserGroupMember(groupMembers, u, g)) =>
                        /\ response' = NoResponse
                        /\ adding' = adding (+)
                              SetToBag({[group_id |-> g, user_id |-> m]})
       /\ \A r \in BagToSet(adding) :
             AddMemberInsert(r) =>
                 /\ \E k \in DOMAIN groupMembers' :
                        /\ DOMAIN groupMembers' = DOMAIN groupMembers \cup {k}
                        /\ k \notin DOMAIN groupMembers
                        /\ groupMembers'[k] = r
                 /\ \A k \in DOMAIN groupMembers : groupMembers'[k] = groupMembers[k]
                 /\ isUserGroupMember(groupMembers', r.user_id, r.group_id)
                 /\ response' = Reply("POST member", 201)]_vars

\* C19 witness: an add-member request was answered 201 and a group has two
\* members.
C19_Witness ==
    /\ response = Reply("POST member", 201)
    /\ \E g \in DOMAIN groups : Cardinality(MembersOf(g)) = 2

\* C20: every stored group has a membership row of its creator, and so at
\* least one member.
C20_CreatorIsMember ==
    \A g \in DOMAIN groups :
        /\ MembersOf(g) # {}
        /\ isUserGroupMember(groupMembers, groups[g].created_by, g)

\* C21: every stored split of a stored expense names the owner of the
\* expense or a member of the group of the expense.  Memberships are never
\* removed: a user who is no member now was none when the split was written.
C21_SplitParticipantAllowed ==
    \A s \in DOMAIN expenseSplits :
        LET e == expenseSplits[s].expense_id
            u == expenseSplits[s].user_id
        IN  e \in DOMAIN expenses =>
                \/ u = expenses[e].user_id
                \/ /\ expenses[e].group_id # Null
                   /\ isUserGroupMember(groupMembers, u, expenses[e].group_id)

\* The position of member m among the members ms in ascending id order.
Rank(m, ms) == Cardinality({x \in ms : x <= m})

\* The share of member m when total cents are allocated to the members ms:
\* the floor of total / n, and one cent more for the first total mod n
\* members in ascending id order.
Share(total, ms, m) ==
    LET n == Cardinality(ms)
    IN  (total \div n) + (IF Rank(m, ms) <= total % n THEN 1 ELSE 0)

\* C22: when the request that created a split expense in a group with
\* members is answered 201, the stored splits of the expense are one per
\* member of the group, each of the member's share of the amount.
C22_GroupSplitAllocation ==
    [][\A e \in posting :
          PostDone(e) =>
              LET g == expenses[e].group_id
                  ms == MembersOf(g)
                  rows == getExpenseSplits(expenseSplits', e)
              IN  (g # Null /\ ms # {}) =>
                      /\ {expenseSplits'[s].user_id : s \in rows} = ms
                      /\ Cardinality(rows) = Cardinality(ms)
                      /\ \A s \in rows :
                            expenseSplits'[s].amount =
                               Share(expenses[e].amount, ms, expenseSplits'[s].user_id)]_vars

\* C23: every stored expense has a strictly positive amount.
C23_PositiveAmount ==
    \A e \in DOMAIN expenses : expenses[e].amount > 0

\* C24: GET /api/balance changes no stored expense, split, group or
\* membership and no id counter, its report is that of the tables it
\* leaves, and a second call of the same user right after it returns the
\* same report.
C24_BalanceIsPureRead ==
    [][\A u \in Users :
          GetBalance(u) =>
              /\ UNCHANGED <<expenses, expenseSplits, currentExpenseId,
                             currentExpenseSplitId, groups, groupMembers,
                             currentGroupId, currentGroupMemberId>>
              /\ response'.body = getUserBalances(expenses', expenseSplits', u)
              /\ (response.route = "GET balance" /\ response.user = u) =>
                    response'.body = response.body]_vars

\* C24 witness: a report with a debt of its user was sent while splits are
\* stored.
C24_Witness ==
    /\ response.route = "GET balance"
    /\ response.body.youOwe.total > 0
    /\ expenseSplits # <<>>

\* C25: every result of getGroupMembers lists the members of the group in
\* ascending order of their user ids.
C25_MembersAscending ==
    \A g \in DOMAIN groups :
        \A seq \in getGroupMembers(groupMembers, g) :
            \A i, j \in 1..Len(seq) : i < j => seq[i] <= seq[j]

\* C26: no step changes a field of an expense or of a split that is stored
\* before and after it: rows are written once and removed, never updated.
C26_DeleteOnly ==
    [][/\ \A e \in DOMAIN expenses \cap DOMAIN expenses' :
             expenses'[e] = expenses[e]
       /\ \A s \in DOMAIN expenseSplits \cap DOMAIN expenseSplits' :
             expenseSplits'[s] = expenseSplits[s]]_vars

\* C26 witness: an expense and a split of it are stored while the deletion
\* of another expense is under way.
C26_Witness ==
    /\ deleting # {}
    /\ \E s \in DOMAIN expenseSplits :
          /\ expenseSplits[s].expense_id \in DOMAIN expenses
          /\ \A r \in deleting : r.id # expenseSplits[s].expense_id

\* C27: on the same tables MemStorage.getUserBalances and
\* DatabaseStorage.getUserBalances return the same report for every user.
C27_StoragesAgree ==
    \A u \in Users :
        MemGetUserBalances(expenses, expenseSplits, u) =
        DbGetUserBalances(expenses, expenseSplits, u)

\* C28: with MemStorage a new row of every table takes the value of the
\* counter of the table as its id, the counters never decrease, and every id
\* stored or named by a split is below its counter: an id is never given
\* twice, and a new expense never has the id a stored split names.
C28_MemIdsNeverReused ==
    [][storage = "mem" =>
          /\ currentExpenseId' >= currentExpenseId
          /\ currentExpenseSplitId' >= currentExpenseSplitId
          /\ currentGroupId' >= currentGroupId
          /\ currentGroupMemberId' >= currentGroupMemberId
          /\ \A e \in DOMAIN expenses' \ DOMAIN expenses : e = currentExpenseId
          /\ \A s \in DOMAIN expenseSplits' \ DOMAIN expenseSplits :
                s = currentExpenseSplitId
          /\ \A g \in DOMAIN groups' \ DOMAIN groups : g = currentGroupId
          /\ \A m \in DOMAIN groupMembers' \ DOMAIN groupMembers :
                m = currentGroupMemberId
          /\ \A e \in DOMAIN expenses' : e < currentExpenseId'
          /\ \A s \in DOMAIN expenseSplits' :
                /\ s < currentExpenseSplitId'
                /\ expenseSplits'[s].expense_id < currentExpenseId'
          /\ \A g \in DOMAIN groups' : g < currentGroupId'
          /\ \A m \in DOMAIN groupMembers' : m < currentGroupMemberId']_vars

\* C28 witness: with MemStorage expense 1 is deleted, and the expense
\* created after that is stored as expense 2 with a split of its own.
C28_Witness ==
    /\ storage = "mem"
    /\ response = Reply("POST", 201)
    /\ DOMAIN expenses = {2}
    /\ \E s \in DOMAIN expenseSplits : expenseSplits[s].expense_id = 2

\* No group, membership or id counter changes in the step.
DeleteFrame ==
    UNCHANGED <<groups, groupMembers, currentGroupId, currentGroupMemberId,
                currentExpenseId, currentExpenseSplitId>>

\* C29: the first statement of deleteExpense(e) removes exactly the splits
\* with expense_id = e and the second exactly the expense e; every other
\* expense and split, every group and membership and every counter is
\* unchanged.  deleteExpense of an id that is not stored changes nothing:
\* neither of its statements removes a row, and a DELETE request for such an
\* id changes nothing either.
C29_DeleteFrame ==
    [][/\ \A r \in deleting :
             DeleteSplits(r) =>
                 /\ expenses' = expenses
                 /\ DOMAIN expenseSplits' =
                       {s \in DOMAIN expenseSplits :
                           expenseSplits[s].expense_id # r.id}
                 /\ \A s \in DOMAIN expenseSplits' :
                       expenseSplits'[s] = expenseSplits[s]
                 /\ DeleteFrame
       /\ \A r \in deleting :
             DeleteRow(r) =>
                 /\ expenseSplits' = expenseSplits
                 /\ DOMAIN expenses' = DOMAIN expenses \ {r.id}
                 /\ \A e \in DOMAIN expenses' : expenses'[e] = expenses[e]
                 /\ DeleteFrame
       /\ \A u \in Users, id \in ExpenseIds :
             (DeleteExpense(u, id) /\ id \notin DOMAIN expenses) =>
                 /\ UNCHANGED <<expenses, expenseSplits, deleting>>
                 /\ DeleteFrame
       /\ \A id \in ExpenseIds \ DOMAIN expenses :
             /\ deleteExpenseSplits(expenseSplits, id) = expenseSplits
             /\ deleteExpenseRow(expenses, id) = expenses]_vars

\* C30: neither GET /api/groups/:id nor GET /api/export/expenses with a
\* groupId sends the expenses of a stored group g to a requester who is not a
\* member of g.
C30_GroupExpensesForMembersOnly ==
    [][\A u \in Users, g \in GroupIdsNamed :
          (/\ GetGroupDetails(u, g) \/ ExportExpenses(u, g)
           /\ getGroupById(groups, g) # {}
           /\ response'.body # {}) =>
              isUserGroupMember(groupMembers, u, g)]_vars

====
